---- MODULE Spec2Model ----
(***************************************************************************)
(* A model of DECTEify.py: the pipeline that inlines the common table      *)
(* expressions of a SQL text into its main query.                          *)
(*                                                                         *)
(* A Python str is a sequence of one-character strings; indices are        *)
(* 1-based here and 0-based in the source.  Every regular expression of    *)
(* the source is an operator that computes the match the backtracking      *)
(* matcher of Python's re finds (leftmost start, greedy quantifiers).      *)
(***************************************************************************)
EXTENDS Integers, Sequences, FiniteSets, TLC

----------------------------------------------------------------------------
(* Characters and classes of Python's re.                                  *)

UpperMap ==
    ("a" :> "A") @@ ("b" :> "B") @@ ("c" :> "C") @@ ("d" :> "D") @@
    ("e" :> "E") @@ ("f" :> "F") @@ ("g" :> "G") @@ ("h" :> "H") @@
    ("i" :> "I") @@ ("j" :> "J") @@ ("k" :> "K") @@ ("l" :> "L") @@
    ("m" :> "M") @@ ("n" :> "N") @@ ("o" :> "O") @@ ("p" :> "P") @@
    ("q" :> "Q") @@ ("r" :> "R") @@ ("s" :> "S") @@ ("t" :> "T") @@
    ("u" :> "U") @@ ("v" :> "V") @@ ("w" :> "W") @@ ("x" :> "X") @@
    ("y" :> "Y") @@ ("z" :> "Z")

LowerLetters == DOMAIN UpperMap

UpperLetters == {UpperMap[c] : c \in LowerLetters}

Digits == {"0", "1", "2", "3", "4", "5", "6", "7", "8", "9"}

\* \s
IsSpace(c) == c \in {" ", "\t", "\n", "\r", "\f"}

\* \w
IsWord(c) == c \in LowerLetters \cup UpperLetters \cup Digits \cup {"_"}

\* str.upper() of one character
UpperChar(c) == IF c \in LowerLetters THEN UpperMap[c] ELSE c

\* str.lower() of one character
LowerChar(c) ==
    IF c \in UpperLetters THEN CHOOSE l \in LowerLetters : UpperMap[l] = c ELSE c

\* str.upper()
Upper(s) == [i \in 1..Len(s) |-> UpperChar(s[i])]

\* str.lower()
Lower(s) == [i \in 1..Len(s) |-> LowerChar(s[i])]

Min(S) == CHOOSE x \in S : \A y \in S : x <= y

Max(S) == CHOOSE x \in S : \A y \in S : x >= y

\* s[p-1:] of the source, the text from index p to the end
From(s, p) == SubSeq(s, p, Len(s))

\* the index of the first character at or after p that is not whitespace,
\* Len(s) + 1 when there is none: where a greedy \s* or \s+ begun at p ends
SkipSpace(s, p) ==
    LET stops == {k \in p..Len(s) : ~IsSpace(s[k])}
    IN  IF stops = {} THEN Len(s) + 1 ELSE Min(stops)

\* the index after a greedy \S+ begun at p
SkipNonSpace(s, p) ==
    LET stops == {k \in p..Len(s) : IsSpace(s[k])}
    IN  IF stops = {} THEN Len(s) + 1 ELSE Min(stops)

\* the index after a greedy \w+ begun at p
SkipWord(s, p) ==
    LET stops == {k \in p..Len(s) : ~IsWord(s[k])}
    IN  IF stops = {} THEN Len(s) + 1 ELSE Min(stops)

\* str.strip()
Strip(s) ==
    LET keep == {k \in 1..Len(s) : ~IsSpace(s[k])}
    IN  IF keep = {} THEN <<>> ELSE SubSeq(s, Min(keep), Max(keep))

\* the literal w matches s at index p, ignoring case (re.IGNORECASE)
MatchesAt(s, p, w) ==
    /\ p >= 1
    /\ p + Len(w) - 1 <= Len(s)
    /\ \A k \in 1..Len(w) : UpperChar(s[p + k - 1]) = UpperChar(w[k])

\* \b at the gap before index p
WordBoundary(s, p) ==
    LET before == p > 1 /\ p - 1 <= Len(s) /\ IsWord(s[p - 1])
        after  == p >= 1 /\ p <= Len(s) /\ IsWord(s[p])
    IN  before # after

----------------------------------------------------------------------------
(* Literals of the source.                                                 *)

KW_WITH == <<"W", "I", "T", "H">>

KW_SELECT == <<"S", "E", "L", "E", "C", "T">>

KW_FROM == <<"F", "R", "O", "M">>

KW_JOIN == <<"J", "O", "I", "N">>

KW_INNER == <<"I", "N", "N", "E", "R">>

KW_LEFT == <<"L", "E", "F", "T">>

KW_RIGHT == <<"R", "I", "G", "H", "T">>

KW_FULL == <<"F", "U", "L", "L">>

KW_AS == <<"A", "S">>

\* " / NULLIF("
NullifOpen == <<" ", "/", " ", "N", "U", "L", "L", "I", "F", "(">>

\* ", 0)"
NullifClose == <<",", " ", "0", ")">>

----------------------------------------------------------------------------
(* fix_division_by_zero                                                    *)

\* pattern_div, (\S+)\s*/\s*(\S+), tried at index p: group 1 is greedy, so it
\* ends at the last index q of the run of non-whitespace from p for which the
\* remainder matches; after it come whitespace, the '/', whitespace and the
\* whole next run of non-whitespace (group 2).
pattern_div(s, p) ==
    LET run  == SkipNonSpace(s, p) - 1
        fits == {q \in p..run :
                    LET sl == SkipSpace(s, q + 1)
                    IN  /\ sl <= Len(s)
                        /\ s[sl] = "/"
                        /\ SkipSpace(s, sl + 1) <= Len(s)}
    IN  IF p > Len(s) \/ IsSpace(s[p]) \/ fits = {}
        THEN [ok |-> FALSE, start |-> p, left |-> <<>>, right |-> <<>>, end |-> p]
        ELSE LET q  == Max(fits)
                 sl == SkipSpace(s, q + 1)
                 rs == SkipSpace(s, sl + 1)
                 re == SkipNonSpace(s, rs)
             IN  [ok |-> TRUE, start |-> p, left |-> SubSeq(s, p, q),
                  right |-> SubSeq(s, rs, re - 1), end |-> re]

\* repl_div guarding every match but leaving the scan as it is: the divisor
\* is guarded and the left operand too
repl_div_both(m) ==
    <<"N", "U", "L", "L", "I", "F", "(">> \o m.left \o NullifClose
        \o NullifOpen \o m.right \o NullifClose

\* repl_div: f"{left} / NULLIF({right}, 0)"
repl_div(m) == m.left \o NullifOpen \o m.right \o NullifClose

RECURSIVE DivSub(_, _)
\* pattern_div.sub(repl_div, s) from index pos on: the leftmost match is
\* replaced and the scan resumes after it
DivSub(s, pos) ==
    LET starts == {p \in pos..Len(s) : pattern_div(s, p).ok}
    IN  IF starts = {} THEN From(s, pos)
        ELSE LET m == pattern_div(s, Min(starts))
             IN  SubSeq(s, pos, m.start - 1) \o repl_div(m) \o DivSub(s, m.end)

fix_division_by_zero(s) == DivSub(s, 1)

----------------------------------------------------------------------------
(* split_with_and_select                                                   *)

IsBlank(c) == c \in {" ", "\t"}

\* re.sub(r'[ \t]+', ' ', s): of every run of spaces and tabs the first
\* character stays, as a space
Normalize(s) ==
    LET tagged == [k \in 1..Len(s) |-> <<s[k], k > 1 /\ IsBlank(s[k - 1])>>]
        kept   == SelectSeq(tagged, LAMBDA t : ~(IsBlank(t[1]) /\ t[2]))
    IN  [k \in 1..Len(kept) |-> IF IsBlank(kept[k][1]) THEN " " ELSE kept[k][1]]

\* with_match.start() + 1 for re.search(r'\bWITH\b', t, re.IGNORECASE); 0 when
\* there is no match
with_match(t) ==
    LET hits == {p \in 1..Len(t) :
                    /\ MatchesAt(t, p, KW_WITH)
                    /\ WordBoundary(t, p)
                    /\ WordBoundary(t, p + Len(KW_WITH))}
    IN  IF hits = {} THEN 0 ELSE Min(hits)

\* paren_count after the characters t[from..i] have been scanned
paren_count(t, from, i) ==
    Cardinality({k \in from..i : t[k] = "("}) - Cardinality({k \in from..i : t[k] = ")"})

\* lines 36-53, the scan begun at start_idx: main_select_start + 1, where 0
\* stands for the source's -1
scan_for_select(t, start_idx) ==
    LET hits == {i \in start_idx..Len(t) :
                    /\ paren_count(t, start_idx, i) = 0
                    /\ MatchesAt(t, i, KW_SELECT)}
    IN  IF hits = {} THEN 0 ELSE Min(hits)

split_with_and_select(s) ==
    LET t         == Normalize(s)
        start_idx == with_match(t)
        sel       == scan_for_select(t, start_idx)
    IN  IF start_idx = 0
        THEN [with_block |-> <<>>, main_select |-> Strip(t)]
        ELSE IF sel = 0
        THEN [with_block |-> Strip(From(t, start_idx)), main_select |-> <<>>]
        ELSE [with_block  |-> Strip(SubSeq(t, start_idx, sel - 1)),
              main_select |-> Strip(From(t, sel))]

----------------------------------------------------------------------------
(* extract_ctes                                                            *)

\* re.sub(r'^\s*WITH\s+', '', w, flags=re.IGNORECASE): the leading WITH and
\* the whitespace after it go, when there is such whitespace
StripWith(w) ==
    LET p == SkipSpace(w, 1)
        e == p + Len(KW_WITH)
    IN  IF MatchesAt(w, p, KW_WITH) /\ e <= Len(w) /\ IsSpace(w[e])
        THEN From(w, SkipSpace(w, e))
        ELSE w

\* str.rstrip(',')
RStripComma(s) ==
    LET keep == {k \in 1..Len(s) : s[k] # ","}
    IN  IF keep = {} THEN <<>> ELSE SubSeq(s, 1, Max(keep))

RECURSIVE SplitChunks(_, _)
\* ctes_text_list: the chunks of w from index start on, cut at the commas
\* seen while paren_count = 0; the last chunk is kept only if not empty
SplitChunks(w, start) ==
    LET cuts == {i \in start..Len(w) : w[i] = "," /\ paren_count(w, 1, i) = 0}
    IN  IF cuts = {}
        THEN LET final_chunk == RStripComma(Strip(From(w, start)))
             IN  IF final_chunk = <<>> THEN <<>> ELSE <<final_chunk>>
        ELSE LET i == Min(cuts)
             IN  <<RStripComma(Strip(SubSeq(w, start, i - 1)))>> \o SplitChunks(w, i + 1)

\* cte_pattern.match(chunk) for ^([\w\d_]+)\s+AS\s*\((.*)\)$
cte_pattern(chunk) ==
    LET n  == SkipWord(chunk, 1)        \* after group 1
        a  == SkipSpace(chunk, n)       \* after \s+
        o  == SkipSpace(chunk, a + Len(KW_AS))   \* after AS\s*
        \* \)$ : the ')' that ends the chunk, or that precedes its final newline
        c  == IF chunk # <<>> /\ chunk[Len(chunk)] = ")" THEN Len(chunk)
              ELSE IF Len(chunk) > 1 /\ chunk[Len(chunk)] = "\n"
                                     /\ chunk[Len(chunk) - 1] = ")"
                   THEN Len(chunk) - 1
                   ELSE 0
        ok == /\ n > 1
              /\ a > n
              /\ MatchesAt(chunk, a, KW_AS)
              /\ o < c
              /\ chunk[o] = "("
    IN  IF ok
        THEN [ok |-> TRUE, name |-> SubSeq(chunk, 1, n - 1),
              body |-> SubSeq(chunk, o + 1, c - 1)]
        ELSE [ok |-> FALSE, name |-> <<>>, body |-> <<>>]

\* d[k] = v on a dict kept as its keys in insertion order and its mapping
DictSet(d, k, v) ==
    [keys |-> IF k \in DOMAIN d.map THEN d.keys ELSE Append(d.keys, k),
     map  |-> (k :> v) @@ d.map]

EmptyDict == [keys |-> <<>>, map |-> <<>>]

RECURSIVE ParseChunks(_, _)
\* the loop over ctes_text_list that fills ctes
ParseChunks(chunks, ctes) ==
    IF chunks = <<>> THEN ctes
    ELSE LET m == cte_pattern(Head(chunks))
         IN  IF ~m.ok THEN ParseChunks(Tail(chunks), ctes)
             ELSE ParseChunks(Tail(chunks),
                              DictSet(ctes, Lower(Strip(m.name)), Strip(m.body)))

extract_ctes(s) ==
    LET sp == split_with_and_select(s)
    IN  IF sp.with_block = <<>>
        THEN [ctes |-> EmptyDict, main_select |-> Strip(s)]
        ELSE [ctes |-> ParseChunks(SplitChunks(Strip(StripWith(sp.with_block)), 1),
                                   EmptyDict),
              main_select |-> sp.main_select]

----------------------------------------------------------------------------
(* find_dependencies                                                       *)

\* re.search(r'\b' + NAME + r'\b', body_upper): name occurs in body as a
\* whole word, whatever the case
HasWord(body, name) ==
    \E p \in 1..Len(body) :
        /\ MatchesAt(body, p, name)
        /\ WordBoundary(body, p)
        /\ WordBoundary(body, p + Len(name))

\* the set dep_map[cte] ends up with
DepsOf(ctes, cte) ==
    {ctes.keys[k] : k \in {j \in 1..Len(ctes.keys) :
                              /\ ctes.keys[j] # cte
                              /\ HasWord(ctes.map[cte], ctes.keys[j])}}

\* dep_map is a defaultdict: a key appears when its first dependency is added
find_dependencies(ctes) ==
    LET has == SelectSeq(ctes.keys, LAMBDA c : DepsOf(ctes, c) # {})
    IN  [keys |-> has, map |-> [c \in {has[k] : k \in 1..Len(has)} |-> DepsOf(ctes, c)]]

\* for cte in ctes: dep_map.setdefault(cte, set())
SetDefaults(dep, ctes) ==
    LET missing == SelectSeq(ctes.keys, LAMBDA c : c \notin DOMAIN dep.map)
    IN  [keys |-> dep.keys \o missing,
         map  |-> [c \in DOMAIN dep.map \cup {missing[k] : k \in 1..Len(missing)} |->
                      IF c \in DOMAIN dep.map THEN dep.map[c] ELSE {}]]

----------------------------------------------------------------------------
(* topological_sort_ctes                                                   *)

\* all_ctes: the keys and everything that appears only as a dependency
all_ctes(dep) == DOMAIN dep.map \cup UNION {dep.map[c] : c \in DOMAIN dep.map}

\* in_degree with the counting loop of lines 140-142 left out
initial_in_degree_uncounted(dep) == [c \in all_ctes(dep) |-> 0]

\* in_degree after the counting loop: one per dependency of the cte itself
initial_in_degree(dep) ==
    [c \in all_ctes(dep) |-> IF c \in DOMAIN dep.map THEN Cardinality(dep.map[c]) ELSE 0]

\* the orders in which iterating a set can yield its elements
Orderings(S) ==
    {q \in [1..Cardinality(S) -> S] : \A i, j \in 1..Cardinality(S) : q[i] = q[j] => i = j}

\* queue.append(cte) without the test of line 153
IsReadyUntested(deg, cte) == deg[cte] >= 0

\* if in_degree[cte] == 0: queue.append(cte)
IsReady(deg, cte) == deg[cte] = 0

RECURSIVE Release(_, _, _, _)
\* the loop "for cte, deps in dep_map.items()" run after node was popped, from
\* the k-th key on: st is the pair of in_degree and queue
Release(dep, node, k, st) ==
    IF k > Len(dep.keys) THEN st
    ELSE LET cte == dep.keys[k]
         IN  IF node \in dep.map[cte]
             THEN LET deg == [st.in_degree EXCEPT ![cte] = @ - 1]
                  IN  Release(dep, node, k + 1,
                              [in_degree |-> deg,
                               queue     |-> IF IsReady(deg, cte)
                                             THEN Append(st.queue, cte)
                                             ELSE st.queue])
             ELSE Release(dep, node, k + 1, st)

\* one iteration of "while queue"
PopStep(dep, st) ==
    LET node == Head(st.queue)
        rel  == Release(dep, node, 1,
                        [in_degree |-> st.in_degree, queue |-> Tail(st.queue)])
    IN  [in_degree   |-> rel.in_degree,
         queue       |-> rel.queue,
         sorted_list |-> Append(st.sorted_list, node)]

----------------------------------------------------------------------------
(* inline_cte                                                              *)

\* the alternatives of group 1 of pattern_from_join, in the order of the
\* pattern; each word is followed by \s+
JoinKeywords ==
    << <<KW_FROM>>, <<KW_JOIN>>, <<KW_INNER, KW_JOIN>>, <<KW_LEFT, KW_JOIN>>,
       <<KW_RIGHT, KW_JOIN>>, <<KW_FULL, KW_JOIN>> >>

\* "((\n"
DerivedOpen == <<"(", "(", "\n">>

\* "\n)) AS "
DerivedClose == <<"\n", ")", ")", " ", "A", "S", " ">>

RECURSIVE MatchWords(_, _, _)
\* the index after word\s+word\s+... matched at p, 0 when it does not match
MatchWords(s, p, words) ==
    IF words = <<>> THEN p
    ELSE LET e == p + Len(Head(words))
         IN  IF MatchesAt(s, p, Head(words)) /\ e <= Len(s) /\ IsSpace(s[e])
             THEN MatchWords(s, SkipSpace(s, e), Tail(words))
             ELSE 0

\* (?:\s+(AS\s+)?(\w+))?(.*) matched at n: the alias (group 4, <<>> for None)
\* and the index where the_rest (group 5) starts
alias_match(s, n) ==
    LET a      == SkipSpace(s, n)
        w      == SkipSpace(s, a + Len(KW_AS))
        withAs == /\ a > n
                  /\ MatchesAt(s, a, KW_AS)
                  /\ w > a + Len(KW_AS)
                  /\ w <= Len(s)
                  /\ IsWord(s[w])
        bare   == a > n /\ a <= Len(s) /\ IsWord(s[a])
    IN  IF withAs THEN [user_alias |-> SubSeq(s, w, SkipWord(s, w) - 1),
                        the_rest   |-> SkipWord(s, w)]
        ELSE IF bare THEN [user_alias |-> SubSeq(s, a, SkipWord(s, a) - 1),
                           the_rest   |-> SkipWord(s, a)]
        ELSE [user_alias |-> <<>>, the_rest |-> n]

\* ({cte_name}) matched at n: the index after the name, 0 when it does not match
name_match(s, n, cte_name) ==
    IF MatchesAt(s, n, cte_name) THEN n + Len(cte_name) ELSE 0

\* pattern_from_join tried at p: the index after group 2, 0 when no
\* alternative of group 1 is followed by the name
pattern_from_join(s, p, cte_name) ==
    LET ends == [k \in 1..Len(JoinKeywords) |->
                    LET e == MatchWords(s, p, JoinKeywords[k])
                    IN  IF e = 0 THEN 0 ELSE name_match(s, e, cte_name)]
        ok   == {k \in 1..Len(JoinKeywords) : ends[k] # 0}
    IN  IF ~WordBoundary(s, p) \/ ok = {} THEN 0 ELSE ends[Min(ok)]

\* pattern_subselect tried at p: (\bFROM\s+\(?)\s*({cte_name}); the index
\* after group 1 and the index after group 2, both 0 when it does not match
pattern_subselect(s, p, cte_name) ==
    LET e     == MatchWords(s, p, <<KW_FROM>>)
        paren == e # 0 /\ e <= Len(s) /\ s[e] = "("
        g1    == IF paren THEN e + 1 ELSE e
        n     == IF e = 0 THEN 0 ELSE name_match(s, SkipSpace(s, g1), cte_name)
    IN  IF ~WordBoundary(s, p) \/ n = 0
        THEN [group1 |-> 0, name |-> 0]
        ELSE [group1 |-> g1, name |-> n]

\* alias_to_use of replace_from_join and replace_subselect
alias_to_use(user_alias, cte_name) ==
    IF user_alias # <<>> THEN user_alias ELSE cte_name

\* replace_from_join / replace_subselect: text up to the end of group 1, the
\* derived table, the alias, the_rest
replacement(s, g1, n, cte_name, cte_body) ==
    LET am == alias_match(s, n)
    IN  SubSeq(s, 1, g1 - 1) \o DerivedOpen \o cte_body \o DerivedClose
            \o alias_to_use(am.user_alias, cte_name) \o From(s, am.the_rest)

\* pattern_from_join.sub(replace_from_join, s): group 5, (.*) under DOTALL,
\* runs to the end of the text, so the leftmost match is the only one
sub_from_join(s, cte_name, cte_body) ==
    LET hits == {p \in 1..Len(s) : pattern_from_join(s, p, cte_name) # 0}
    IN  IF hits = {} THEN s
        ELSE LET n == pattern_from_join(s, Min(hits), cte_name)
             IN  replacement(s, n - Len(cte_name), n, cte_name, cte_body)

\* pattern_subselect.sub(replace_subselect, s)
sub_subselect(s, cte_name, cte_body) ==
    LET hits == {p \in 1..Len(s) : pattern_subselect(s, p, cte_name).name # 0}
    IN  IF hits = {} THEN s
        ELSE LET m == pattern_subselect(s, Min(hits), cte_name)
             IN  replacement(s, m.group1, m.name, cte_name, cte_body)

inline_cte(target_sql, cte_name, cte_body) ==
    sub_subselect(sub_from_join(target_sql, cte_name, cte_body), cte_name, cte_body)

----------------------------------------------------------------------------
(* State shared by the specifications.                                     *)

VARIABLES
    pc,            \* the position of the call under way
    sql_text,      \* the argument of inline_all_ctes, fix_division_by_zero or split_with_and_select
    result,        \* the value returned, once pc = "done"
    ctes,          \* inline_all_ctes: the dict of CTE bodies, keys in insertion order
    main_select,   \* inline_all_ctes: the main query extract_ctes returned
    dep_map,       \* the dependency dict, keys in insertion order
    in_degree,     \* topological_sort_ctes: remaining dependencies of each CTE
    queue,         \* topological_sort_ctes: the deque
    sorted_list,   \* topological_sort_ctes: the names emitted so far
    sorted_ctes,   \* the list topological_sort_ctes returned
    final_sql,     \* inline_all_ctes: the running main query
    idx,           \* inline_all_ctes: iterations of "for cte in sorted_ctes" completed
    calls,         \* log of the inline_cte calls made: [into, cte, body]; into is the
                   \* CTE whose body was the target, <<>> for the main query
    target_sql,    \* inline_cte: the text to rewrite
    cte_name,      \* inline_cte: the name to replace
    cte_body,      \* inline_cte: the body to put in its place
    main_select_start  \* split_with_and_select: index of the split, 0 for the source's -1

vars == <<pc, sql_text, result, ctes, main_select, dep_map, in_degree, queue,
          sorted_list, sorted_ctes, final_sql, idx, calls, target_sql,
          cte_name, cte_body, main_select_start>>

textVars == <<sql_text, result>>

extractVars == <<ctes, main_select>>

sortVars == <<in_degree, queue, sorted_list, sorted_ctes>>

loopVars == <<final_sql, idx, calls>>

inlineVars == <<target_sql, cte_name, cte_body>>

splitVars == <<main_select_start>>

NoText == sql_text = <<>> /\ result = <<>>

NoExtract == ctes = EmptyDict /\ main_select = <<>>

NoSort == in_degree = <<>> /\ queue = <<>> /\ sorted_list = <<>> /\ sorted_ctes = <<>>

NoLoop == final_sql = <<>> /\ idx = 0 /\ calls = <<>>

NoInline == target_sql = <<>> /\ cte_name = <<>> /\ cte_body = <<>>

NoSplit == main_select_start = 0

----------------------------------------------------------------------------
(* SpecDiv: fix_division_by_zero on tokens joined by zero or one space.    *)

MaxDivTokens == 5

DivTokens == {<<"x">>, <<"1", "0">>, <<"/">>}

DivSeps == {<<>>, <<" ">>}

RECURSIVE JoinWith(_, _)
\* toks[1] seps[1] toks[2] seps[2] ... toks[n]
JoinWith(toks, seps) ==
    IF Len(toks) = 0 THEN <<>>
    ELSE IF Len(toks) = 1 THEN toks[1]
    ELSE toks[1] \o seps[1] \o JoinWith(Tail(toks), Tail(seps))

DivInputs ==
    UNION {{JoinWith(toks, seps) :
                toks \in [1..n -> DivTokens], seps \in [1..(n - 1) -> DivSeps]} :
           n \in 1..MaxDivTokens}

InitDiv ==
    /\ pc = "guard"
    /\ sql_text \in DivInputs
    /\ result = <<>>
    /\ dep_map = EmptyDict
    /\ NoExtract /\ NoSort /\ NoLoop /\ NoInline /\ NoSplit

\* result = fix_division_by_zero(sql_text)
Guard ==
    /\ pc = "guard"
    /\ result' = fix_division_by_zero(sql_text)
    /\ pc' = "done"
    /\ UNCHANGED <<sql_text, dep_map, extractVars, sortVars, loopVars,
                   inlineVars, splitVars>>

NextDiv == Guard

SpecDiv == InitDiv /\ [][NextDiv]_vars

----------------------------------------------------------------------------
(* SpecTopo: topological_sort_ctes on every dependency map over MaxNodes   *)
(* names.                                                                  *)

MaxNodes == 3

NodeNames == << <<"a">>, <<"b">>, <<"c">>, <<"d">>, <<"e">> >>

Nodes == {NodeNames[k] : k \in 1..MaxNodes}

\* every dict whose keys and dependencies are among Nodes, in every
\* insertion order of the keys
InitTopo ==
    /\ pc = "sort"
    /\ \E K \in SUBSET Nodes :
          \E m \in [K -> SUBSET Nodes] :
             \E ks \in Orderings(K) :
                dep_map = [keys |-> ks, map |-> m]
    /\ NoText /\ NoExtract /\ NoSort /\ NoLoop /\ NoInline /\ NoSplit

\* lines 133-145: in_degree is counted and the queue is built from the set
\* all_ctes, whose iteration order is not fixed
TopoStart ==
    /\ pc = "sort"
    /\ in_degree' = initial_in_degree(dep_map)
    /\ queue' \in Orderings({c \in all_ctes(dep_map) : initial_in_degree(dep_map)[c] = 0})
    /\ sorted_list' = <<>>
    /\ pc' = "pop"
    /\ UNCHANGED <<sorted_ctes, dep_map, textVars, extractVars, loopVars,
                   inlineVars, splitVars>>

\* lines 147-154: one iteration of "while queue"
Pop ==
    /\ pc = "pop"
    /\ queue # <<>>
    /\ LET st == PopStep(dep_map, [in_degree |-> in_degree, queue |-> queue,
                                   sorted_list |-> sorted_list])
       IN  /\ in_degree' = st.in_degree
           /\ queue' = st.queue
           /\ sorted_list' = st.sorted_list
    /\ UNCHANGED <<pc, sorted_ctes, dep_map, textVars, extractVars, loopVars,
                   inlineVars, splitVars>>

\* line 156: the loop is over and the list is returned
TopoReturn ==
    /\ pc = "pop"
    /\ queue = <<>>
    /\ sorted_ctes' = SelectSeq(sorted_list, LAMBDA c : c \in all_ctes(dep_map))
    /\ pc' = "sorted"
    /\ UNCHANGED <<in_degree, queue, sorted_list, dep_map, textVars, extractVars,
                   loopVars, inlineVars, splitVars>>

NextTopo == TopoStart \/ Pop \/ TopoReturn

SpecTopo == InitTopo /\ [][NextTopo]_vars

\* the index of c in the sequence q, 0 when it is absent
IndexOf(q, c) ==
    LET at == {k \in 1..Len(q) : q[k] = c} IN IF at = {} THEN 0 ELSE Min(at)

\* C7: in the list topological_sort_ctes returns, every dependency of a listed
\* CTE is listed too, at an earlier position.
DependenciesFirst ==
    pc = "sorted" =>
        \A k \in 1..Len(sorted_ctes) :
            LET A == sorted_ctes[k]
            IN  A \in DOMAIN dep_map.map =>
                    \A B \in dep_map.map[A] :
                        IndexOf(sorted_ctes, B) # 0 /\ IndexOf(sorted_ctes, B) < k

\* a list was returned in which a CTE with two dependencies comes last
DependenciesFirstWitness ==
    /\ pc = "sorted"
    /\ \E k \in 1..Len(sorted_ctes) :
          /\ sorted_ctes[k] \in DOMAIN dep_map.map
          /\ Cardinality(dep_map.map[sorted_ctes[k]]) >= 2

----------------------------------------------------------------------------
(* SpecPipe: inline_all_ctes on WITH queries of up to MaxCtes CTEs.        *)

MaxCtes == 3

\* "WITH "
T_WITH_ ==
    <<"W", "I", "T", "H", " ">>

\* " AS ("
T_AS_OPEN ==
    <<" ", "A", "S", " ", "(">>

\* ")"
T_CLOSE ==
    <<")">>

\* ", "
T_COMMA_ ==
    <<",", " ">>

\* " "
T_SPACE ==
    <<" ">>

\* "SELECT 1"
T_SELECT_1 ==
    <<"S", "E", "L", "E", "C", "T", " ", "1">>

\* "SELECT * FROM "
T_SELECT_STAR_FROM_ ==
    <<"S", "E", "L", "E", "C", "T", " ", "*", " ", "F", "R", "O", "M", " ">>

\* "SELECT x / y FROM "
T_SELECT_DIV_FROM_ ==
    <<"S", "E", "L", "E", "C", "T", " ", "x", " ", "/", " ", "y", " ", "F",
      "R", "O", "M", " ">>

\* " t"
T_ALIAS_T ==
    <<" ", "t">>

\* "SELECT * FROM ("
T_WRAP_OPEN ==
    <<"S", "E", "L", "E", "C", "T", " ", "*", " ", "F", "R", "O", "M", " ",
      "(">>

\* ") t"
T_WRAP_CLOSE ==
    <<")", " ", "t">>

\* "WITH a (SELECT 1) SELECT * FROM a"
T_NO_AS ==
    <<"W", "I", "T", "H", " ", "a", " ", "(", "S", "E", "L", "E", "C", "T",
      " ", "1", ")", " ", "S", "E", "L", "E", "C", "T", " ", "*", " ", "F",
      "R", "O", "M", " ", "a">>

\* "SELECT x / y FROM t"
T_PLAIN_DIV ==
    <<"S", "E", "L", "E", "C", "T", " ", "x", " ", "/", " ", "y", " ", "F",
      "R", "O", "M", " ", "t">>

CteNames == << <<"a">>, <<"b">>, <<"c">>, <<"d">>, <<"e">> >>

\* the bodies a CTE among the first n names may have: a literal query, or a
\* query over another of the n names
BodiesOf(n, k) ==
    {T_SELECT_1} \cup {T_SELECT_STAR_FROM_ \o CteNames[j] : j \in (1..n) \ {k}}

RECURSIVE DefList(_, _)
\* "a AS (body1), b AS (body2), ..." from the k-th definition on
DefList(bodies, k) ==
    IF k > Len(bodies) THEN <<>>
    ELSE CteNames[k] \o T_AS_OPEN \o bodies[k] \o T_CLOSE
            \o (IF k < Len(bodies) THEN T_COMMA_ ELSE <<>>) \o DefList(bodies, k + 1)

\* the main queries put after n definitions: over the last CTE, a division
\* over the first CTE under an alias, or none at all
MainsOf(n) ==
    {T_SPACE \o T_SELECT_STAR_FROM_ \o CteNames[n],
     T_SPACE \o T_SELECT_DIV_FROM_ \o CteNames[1] \o T_ALIAS_T,
     <<>>}

WithQueries ==
    UNION {{T_WITH_ \o DefList(bodies, 1) \o main :
                bodies \in {b \in [1..n -> UNION {BodiesOf(n, k) : k \in 1..n}] :
                               \A k \in 1..n : b[k] \in BodiesOf(n, k)},
                main \in MainsOf(n)} :
           n \in 1..MaxCtes}

\* a WITH query as it is, or as a parenthesized subquery of an outer query
PipeInputs ==
    WithQueries \cup {T_WRAP_OPEN \o q \o T_WRAP_CLOSE : q \in WithQueries}
        \cup {T_NO_AS, T_PLAIN_DIV, T_SELECT_1}

InitPipe ==
    /\ pc = "extract"
    /\ sql_text \in PipeInputs
    /\ result = <<>>
    /\ dep_map = EmptyDict
    /\ NoExtract /\ NoSort /\ NoLoop /\ NoInline /\ NoSplit

\* lines 266-269: no CTE was extracted, only the division fix is applied
ReturnGuardOnly ==
    /\ pc = "extract"
    /\ extract_ctes(sql_text).ctes.keys = <<>>
    /\ result' = Strip(fix_division_by_zero(sql_text))
    /\ pc' = "done"
    /\ UNCHANGED <<sql_text, dep_map, extractVars, sortVars, loopVars,
                   inlineVars, splitVars>>

\* line 266: ctes, main_select = extract_ctes(sql_text)
ExtractCtes ==
    /\ pc = "extract"
    /\ LET ex == extract_ctes(sql_text)
       IN  /\ ex.ctes.keys # <<>>
           /\ ctes' = ex.ctes
           /\ main_select' = ex.main_select
    /\ pc' = "deps"
    /\ UNCHANGED <<textVars, dep_map, sortVars, loopVars, inlineVars,
                   splitVars>>

\* lines 271-273
FindDeps ==
    /\ pc = "deps"
    /\ dep_map' = SetDefaults(find_dependencies(ctes), ctes)
    /\ pc' = "sort"
    /\ UNCHANGED <<textVars, extractVars, sortVars, loopVars, inlineVars,
                   splitVars>>

\* line 277: final_sql = main_select
StartInlining ==
    /\ pc = "sorted"
    /\ final_sql' = main_select
    /\ idx' = 0
    /\ calls' = <<>>
    /\ pc' = "inline"
    /\ UNCHANGED <<textVars, dep_map, extractVars, sortVars, inlineVars,
                   splitVars>>

\* the body as extract_ctes returned it, not as the earlier iterations left it
body_read_stale(cs, cte) == extract_ctes(sql_text).ctes.map[cte]

\* body = ctes[cte], read once at line 280
body_read(cs, cte) == cs.map[cte]

\* lines 285-287: the bodies after cte was inlined into every other sorted CTE
inline_into_others(cs, sorted, cte, body) ==
    [keys |-> cs.keys,
     map  |-> [other \in DOMAIN cs.map |->
                 IF IndexOf(sorted, other) # 0 /\ other # cte
                 THEN inline_cte(cs.map[other], cte, body)
                 ELSE cs.map[other]]]

\* the inline_cte calls of one iteration, in the order they are made
calls_of(sorted, cte, body) ==
    <<[into |-> <<>>, cte |-> cte, body |-> body]>>
        \o [k \in 1..Len(SelectSeq(sorted, LAMBDA o : o # cte)) |->
               [into |-> SelectSeq(sorted, LAMBDA o : o # cte)[k],
                cte |-> cte, body |-> body]]

\* lines 279-287: one iteration of "for cte in sorted_ctes"
InlineStep ==
    /\ pc = "inline"
    /\ idx < Len(sorted_ctes)
    /\ LET cte  == sorted_ctes[idx + 1]
           body == body_read(ctes, cte)
       IN  /\ final_sql' = inline_cte(final_sql, cte, body)
           /\ ctes' = inline_into_others(ctes, sorted_ctes, cte, body)
           /\ calls' = calls \o calls_of(sorted_ctes, cte, body)
    /\ idx' = idx + 1
    /\ UNCHANGED <<pc, textVars, main_select, dep_map, sortVars, inlineVars,
                   splitVars>>

\* lines 290-291
Finish ==
    /\ pc = "inline"
    /\ idx = Len(sorted_ctes)
    /\ result' = Strip(fix_division_by_zero(final_sql))
    /\ pc' = "done"
    /\ UNCHANGED <<sql_text, dep_map, extractVars, sortVars, loopVars,
                   inlineVars, splitVars>>

NextPipe ==
    \/ ReturnGuardOnly
    \/ ExtractCtes
    \/ FindDeps
    \/ TopoStart
    \/ Pop
    \/ TopoReturn
    \/ StartInlining
    \/ InlineStep
    \/ Finish

SpecPipe == InitPipe /\ [][NextPipe]_vars

\* the dependencies of the CTEs in S
DepsOfSet(dep, S) == UNION {IF c \in DOMAIN dep.map THEN dep.map[c] ELSE {} : c \in S}

RECURSIVE ReachN(_, _, _)
ReachN(dep, S, n) ==
    IF n = 0 THEN S ELSE ReachN(dep, S \cup DepsOfSet(dep, S), n - 1)

\* c depends on itself through one or more edges of dep
OnCycle(dep, c) ==
    c \in ReachN(dep, DepsOfSet(dep, {c}), Cardinality(all_ctes(dep)))

Acyclic(dep) == \A c \in all_ctes(dep) : ~OnCycle(dep, c)

RECURSIVE Replay(_, _, _, _)
\* body after the inline_cte calls into name among log[1..k] were applied to it
Replay(log, k, name, body) ==
    IF k = 0 THEN body
    ELSE LET prev == Replay(log, k - 1, name, body)
         IN  IF log[k].into = name
             THEN inline_cte(prev, log[k].cte, log[k].body)
             ELSE prev

\* the body extract_ctes gave the CTE c
OriginalBody(c) == extract_ctes(sql_text).ctes.map[c]

\* C1: with an acyclic dependency map, when a CTE b is inlined into the main
\* query every CTE a that b depends on has already been inlined into b's
\* body, and the body read for b is the result of those inlinings.
DependencyInlinedFirst ==
    Acyclic(dep_map) =>
        \A k \in 1..Len(calls) :
            calls[k].into = <<>> =>
                LET b == calls[k].cte
                IN  /\ \A a \in dep_map.map[b] :
                          \E j \in 1..(k - 1) : calls[j].into = b /\ calls[j].cte = a
                    /\ calls[k].body = Replay(calls, k - 1, b, OriginalBody(b))

\* a chain was processed to the end: the body read for a dependent CTE was
\* not its original body any more
DependencyInlinedFirstWitness ==
    /\ pc = "done"
    /\ Acyclic(dep_map)
    /\ \E k \in 1..Len(calls) :
          /\ calls[k].into = <<>>
          /\ dep_map.map[calls[k].cte] # {}
          /\ calls[k].body # OriginalBody(calls[k].cte)

\* no standalone WITH outside parentheses
NoTopLevelWith(s) ==
    \A p \in 1..Len(s) :
        ~ /\ MatchesAt(s, p, KW_WITH)
          /\ WordBoundary(s, p)
          /\ WordBoundary(s, p + Len(KW_WITH))
          /\ paren_count(s, 1, p - 1) = 0

\* C4: without a top-level WITH the result is the division-guarded input,
\* trimmed.
NoWithIsGuardOnly ==
    (pc = "done" /\ NoTopLevelWith(sql_text)) =>
        result = Strip(fix_division_by_zero(sql_text))

\* a standalone WITH is found and no SELECT follows it at depth zero
WithButNoSelect(s) ==
    /\ with_match(Normalize(s)) # 0
    /\ scan_for_select(Normalize(s), with_match(Normalize(s))) = 0

\* C5: a WITH that no depth-zero SELECT follows gives the division-guarded
\* input and no inlining, whether or not its chunks parse as CTE definitions.
NoSelectIsGuardOnly ==
    (pc = "done" /\ WithButNoSelect(sql_text)) =>
        /\ result = Strip(fix_division_by_zero(sql_text))
        /\ calls = <<>>

\* no CTE on a dependency cycle is emitted, inlined anywhere, or rewritten
CyclicSkipped ==
    \A c \in DOMAIN dep_map.map :
        OnCycle(dep_map, c) =>
            /\ IndexOf(sorted_list, c) = 0
            /\ IndexOf(sorted_ctes, c) = 0
            /\ \A k \in 1..Len(calls) : calls[k].cte # c /\ calls[k].into # c
            /\ ctes.map[c] = OriginalBody(c)

\* the statements of inline_all_ctes still to run, most significant first:
\* the position, then the iterations left of the loop under way
PcRank ==
    CASE pc = "extract" -> 6
      [] pc = "deps"    -> 5
      [] pc = "sort"    -> 4
      [] pc = "pop"     -> 3
      [] pc = "sorted"  -> 2
      [] pc = "inline"  -> 1
      [] pc = "done"    -> 0

StepsLeft ==
    CASE pc = "pop"    -> Cardinality(all_ctes(dep_map)) - Len(sorted_list)
      [] pc = "inline" -> Len(sorted_ctes) - idx
      [] OTHER         -> 0

\* before the call has returned a statement can run, and no loop has run
\* past its end
CanProceed ==
    /\ pc \in {"extract", "deps", "sort", "pop", "sorted", "inline", "done"}
    /\ StepsLeft >= 0
    /\ pc = "pop" /\ queue # <<>> => StepsLeft > 0

\* a step brings the call closer to its return
Progresses ==
    \/ PcRank' < PcRank
    \/ PcRank' = PcRank /\ StepsLeft' < StepsLeft

\* C8: a CTE on a dependency cycle is never in the sorted list, is never
\* inlined into the main query or another body, keeps its own body, and the
\* call still terminates: every step decreases a bounded measure until the
\* text is returned.
CyclicNeverInlined == [](CyclicSkipped /\ CanProceed) /\ [][Progresses]_vars

\* the call returned with a cycle in the map and another CTE inlined
CyclicNeverInlinedWitness ==
    /\ pc = "done"
    /\ \E c \in DOMAIN dep_map.map : OnCycle(dep_map, c)
    /\ calls # <<>>

----------------------------------------------------------------------------
(* SpecSplit: split_with_and_select on words joined by single spaces.      *)

MaxSplitTokens == 5

SplitTokens ==
    {KW_WITH, KW_SELECT, <<"s", "e", "l", "e", "c", "t", "e", "d">>,
     <<"(">>, <<")">>, <<"x">>}

SplitInputs ==
    UNION {{JoinWith(toks, [k \in 1..(n - 1) |-> <<" ">>]) :
                toks \in [1..n -> SplitTokens]} :
           n \in 1..MaxSplitTokens}

InitSplit ==
    /\ pc = "split"
    /\ sql_text \in SplitInputs
    /\ result = <<>>
    /\ dep_map = EmptyDict
    /\ NoExtract /\ NoSort /\ NoLoop /\ NoInline /\ NoSplit

\* result = split_with_and_select(sql_text); main_select_start is kept as the
\* scan of lines 42-53 left it
Split ==
    /\ pc = "split"
    /\ result' = split_with_and_select(sql_text)
    /\ main_select_start' =
          LET t == Normalize(sql_text)
          IN  IF with_match(t) = 0 THEN 0 ELSE scan_for_select(t, with_match(t))
    /\ pc' = "done"
    /\ UNCHANGED <<sql_text, dep_map, extractVars, sortVars, loopVars,
                   inlineVars>>

NextSplit == Split

SpecSplit == InitSplit /\ [][NextSplit]_vars

\* the parentheses of s are balanced
Balanced(s) ==
    /\ paren_count(s, 1, Len(s)) = 0
    /\ \A i \in 1..Len(s) : paren_count(s, 1, i) >= 0

\* the token SELECT stands at index i of t, outside every parenthesis
TopLevelSelectAt(t, i) ==
    /\ MatchesAt(t, i, KW_SELECT)
    /\ WordBoundary(t, i)
    /\ WordBoundary(t, i + Len(KW_SELECT))
    /\ paren_count(t, 1, i - 1) = 0

\* C9: on balanced input in which a WITH and a following SELECT are found,
\* the split is at the first token SELECT after the WITH that is outside
\* every parenthesis: not inside a sub-expression, not inside an identifier.
SplitAtTopLevelSelect ==
    (pc = "done" /\ Balanced(sql_text) /\ main_select_start # 0) =>
        LET t == Normalize(sql_text)
        IN  /\ TopLevelSelectAt(t, main_select_start)
            /\ \A i \in with_match(t)..(main_select_start - 1) : ~TopLevelSelectAt(t, i)

----------------------------------------------------------------------------
(* SpecInline: inline_cte of the CTE a on queries of up to MaxRefs table   *)
(* references.                                                             *)

MaxRefs == 2

\* "SELECT *"
T_SELECT_STAR ==
    <<"S", "E", "L", "E", "C", "T", " ", "*">>

\* "SELECT 1 AS v"
T_BODY ==
    <<"S", "E", "L", "E", "C", "T", " ", "1", " ", "A", "S", " ", "v">>

RefKeywords == {KW_FROM, KW_JOIN}

RefNames == {<<"a">>, <<"a", "b">>}

\* no alias, a bare alias, an alias after AS
RefAliases == {<<>>, <<" ", "x">>, <<" ", "A", "S", " ", "y">>}

\* nothing, an ON clause, a WHERE clause
RefFollows == {<<>>, <<" ", "O", "N", " ", "1">>, <<" ", "W", "H", "E", "R", "E", " ", "1">>}

\* " FROM a AS y ON 1" and the like
TableRefs ==
    {<<" ">> \o kw \o <<" ">> \o nm \o al \o fo :
        kw \in RefKeywords, nm \in RefNames, al \in RefAliases, fo \in RefFollows}

RECURSIVE Flatten(_)
Flatten(parts) == IF parts = <<>> THEN <<>> ELSE Head(parts) \o Flatten(Tail(parts))

InlineTargets ==
    UNION {{T_SELECT_STAR \o Flatten(refs) : refs \in [1..n -> TableRefs]} :
           n \in 1..MaxRefs}

InitInline ==
    /\ pc = "inline_cte"
    /\ target_sql \in InlineTargets
    /\ cte_name = <<"a">>
    /\ cte_body = T_BODY
    /\ NoText /\ NoExtract /\ NoSort /\ NoLoop /\ NoSplit
    /\ dep_map = EmptyDict

\* result = inline_cte(target_sql, cte_name, cte_body)
Inline ==
    /\ pc = "inline_cte"
    /\ result' = inline_cte(target_sql, cte_name, cte_body)
    /\ pc' = "done"
    /\ UNCHANGED <<sql_text, dep_map, extractVars, sortVars, loopVars,
                   inlineVars, splitVars>>

NextInline == Inline

SpecInline == InitInline /\ [][NextInline]_vars

\* name stands at index n of s after FROM or JOIN and whitespace
FollowsKeyword(s, n, name) ==
    /\ MatchesAt(s, n, name)
    /\ \E kw \in RefKeywords :
          \E p \in 1..(n - 1) : WordBoundary(s, p) /\ MatchWords(s, p, <<kw>>) = n

\* the indices of the references to the table called exactly name
References(s, name) ==
    {n \in 1..Len(s) : FollowsKeyword(s, n, name) /\ WordBoundary(s, n + Len(name))}

\* the number of places where the text w occurs in s
Occurrences(s, w) ==
    Cardinality({p \in 1..Len(s) :
                    p + Len(w) - 1 <= Len(s) /\ SubSeq(s, p, p + Len(w) - 1) = w})

SqlKeywords ==
    {<<"W", "H", "E", "R", "E">>, <<"O", "N">>, KW_JOIN, KW_FROM, KW_INNER,
     KW_LEFT, KW_RIGHT, KW_FULL}

\* the alias the reference at index n of s carries: the identifier after the
\* name, or after AS, unless a clause starts there; the name itself otherwise
AliasOfReference(s, n, name) ==
    LET a  == SkipSpace(s, n + Len(name))
        w  == SubSeq(s, a, SkipWord(s, a) - 1)
        a2 == SkipSpace(s, a + Len(w))
        w2 == SubSeq(s, a2, SkipWord(s, a2) - 1)
    IN  IF Upper(w) = KW_AS /\ w2 # <<>> /\ Upper(w2) \notin SqlKeywords THEN w2
        ELSE IF w # <<>> /\ Upper(w) # KW_AS /\ Upper(w) \notin SqlKeywords THEN w
        ELSE name

\* C2: a CTE referenced two or more times, each time under an alias of its
\* own, is inlined at every reference, and no reference to it remains.
EveryReferenceInlined ==
    (pc = "done" /\ Cardinality(References(target_sql, cte_name)) >= 2
        /\ \A n \in References(target_sql, cte_name) :
              AliasOfReference(target_sql, n, cte_name) # cte_name) =>
        /\ References(result, cte_name) = {}
        /\ Occurrences(result, DerivedOpen \o cte_body \o DerivedClose)
              = Cardinality(References(target_sql, cte_name))

\* C3: the first reference is replaced by the derived table under the alias
\* the reference carries, or under the CTE name when it carries none,
\* whatever follows.
AliasKept ==
    (pc = "done" /\ References(target_sql, cte_name) # {}
        /\ \A n \in 1..Len(target_sql) :
              FollowsKeyword(target_sql, n, cte_name) =>
                  n \in References(target_sql, cte_name)) =>
        LET n        == Min(References(target_sql, cte_name))
            expected == SubSeq(target_sql, 1, n - 1) \o DerivedOpen \o cte_body
                           \o DerivedClose
                           \o AliasOfReference(target_sql, n, cte_name)
        IN  /\ Len(result) >= Len(expected)
            /\ SubSeq(result, 1, Len(expected)) = expected
            /\ Len(result) > Len(expected) => ~IsWord(result[Len(expected) + 1])

\* C10: a text without a reference to the table called exactly cte_name is
\* left as it is.
OnlyExactNameInlined ==
    (pc = "done" /\ References(target_sql, cte_name) = {}) => result = target_sql

----------------------------------------------------------------------------
(* Claims on fix_division_by_zero, checked under SpecDiv.                  *)

DivOperands == DivTokens \ {<<"/">>}

\* " / "
T_SLASH == <<" ", "/", " ">>

\* "NULLIF("
T_NULLIF == <<"N", "U", "L", "L", "I", "F", "(">>

RECURSIVE Chain(_, _, _)
\* ops[k] / ops[k+1] / ... where the operand at position j is written
\* NULLIF(ops[j], 0) when guarded[j]
Chain(ops, guarded, k) ==
    IF k > Len(ops) THEN <<>>
    ELSE (IF k > 1 THEN T_SLASH ELSE <<>>)
            \o (IF guarded[k] THEN T_NULLIF \o ops[k] \o NullifClose ELSE ops[k])
            \o Chain(ops, guarded, k + 1)

\* the chains of two or more operands among the inputs
Chains ==
    UNION {[1..n -> DivOperands] : n \in 2..((MaxDivTokens + 1) \div 2)}

Plain(ops) == Chain(ops, [k \in 1..Len(ops) |-> FALSE], 1)

\* C6 as stated: every divisor of a chain is guarded, the rest is unchanged.
EveryDivisorGuarded ==
    \A ops \in Chains :
        (pc = "done" /\ sql_text = Plain(ops)) =>
            result = Chain(ops, [k \in 1..Len(ops) |-> k > 1], 1)

\* C6 as amended: in a chain t1 / t2 / ... / tn the divisors t2, t4, ... are
\* guarded and t3, t5, ... are not, a guarded divisor not being taken again
\* as the left-hand token of the next division; the rest is unchanged.
EveryOtherDivisorGuarded ==
    \A ops \in Chains :
        (pc = "done" /\ sql_text = Plain(ops)) =>
            result = Chain(ops, [k \in 1..Len(ops) |-> k % 2 = 0], 1)

\* a chain of three operands was rewritten
EveryOtherDivisorGuardedWitness ==
    /\ pc = "done"
    /\ \E ops \in Chains : Len(ops) = 3 /\ sql_text = Plain(ops)
    /\ result # sql_text

====
